---- MODULE Spec2Model ----
(***************************************************************************)
(* Trello -> Clubhouse migration: the card normalizer                      *)
(* (ProcessCardsForExporting and its helpers), the attachment relocator    *)
(* (downloadCardAttachmentsUploadToDropbox) and the import orchestrator    *)
(* (ImportCardsIntoClubhouse and its helpers).                             *)
(*                                                                         *)
(* Strings that the code formats, parses or rewrites are sequences of      *)
(* one-character strings; strings that are only compared are TLA+ strings. *)
(* An optional value (a time pointer) is <<>> when nil and <<t>> otherwise. *)
(***************************************************************************)
EXTENDS Integers, Sequences, FiniteSets, TLC

\* ------------------------------------------------------------------ bounds
MaxCards == 2
MaxActions == 2
MaxChecklists == 2
MaxAttachments == 2
MaxRuns == 2

\* ------------------------------------------------------- string utilities
Digits == {"0", "1", "2", "3", "4", "5", "6", "7", "8", "9"}

DigitVal == [c \in Digits |->
    CASE c = "0" -> 0 [] c = "1" -> 1 [] c = "2" -> 2 [] c = "3" -> 3
      [] c = "4" -> 4 [] c = "5" -> 5 [] c = "6" -> 6 [] c = "7" -> 7
      [] c = "8" -> 8 [] c = "9" -> 9]

DigitChar == <<"0", "1", "2", "3", "4", "5", "6", "7", "8", "9">>

Letters == {"a", "b", "c", "d", "e", "f", "g", "h", "i", "j", "k", "l", "m",
            "n", "o", "p", "q", "r", "s", "t", "u", "v", "w", "x", "y", "z",
            "A", "B", "C", "D", "E", "F", "G", "H", "I", "J", "K", "L", "M",
            "N", "O", "P", "Q", "R", "S", "T", "U", "V", "W", "X", "Y", "Z"}

\* %d of a non-negative int
RECURSIVE IntToStr(_)
IntToStr(n) ==
    IF n < 10 THEN <<DigitChar[n + 1]>>
    ELSE IntToStr(n \div 10) \o <<DigitChar[(n % 10) + 1]>>

Absent == <<>>
Some(v) == <<v>>

\* ------------------------------------------------------------ time.Parse
\* var dateLayout = "2006-01-02T15:04:05.000Z"
dateLayout == <<"2", "0", "0", "6", "-", "0", "1", "-", "0", "2", "T",
                "1", "5", ":", "0", "4", ":", "0", "5", ".", "0", "0", "0", "Z">>

IsDigitAt(s, i) == i >= 1 /\ i <= Len(s) /\ s[i] \in Digits
IsCharAt(s, i, c) == i >= 1 /\ i <= Len(s) /\ s[i] = c
Num2(s, i) == 10 * DigitVal[s[i]] + DigitVal[s[i + 1]]

\* atoi(value[1:4]) of the fraction element: the three characters after the
\* separator are digits, or one sign and two digits; <<>> on errAtoi.
FracAtoi(s, i) ==
    IF IsDigitAt(s, i) /\ IsDigitAt(s, i + 1) /\ IsDigitAt(s, i + 2)
    THEN Some(100 * DigitVal[s[i]] + Num2(s, i + 1))
    ELSE IF (IsCharAt(s, i, "+") \/ IsCharAt(s, i, "-"))
            /\ IsDigitAt(s, i + 1) /\ IsDigitAt(s, i + 2)
    THEN Some(IF s[i] = "-" THEN 0 - Num2(s, i + 1) ELSE Num2(s, i + 1))
    ELSE Absent

IsLeap(y) == (y % 4 = 0) /\ ((y % 100 # 0) \/ (y % 400 = 0))
daysIn(m, y) ==
    IF m = 2 THEN (IF IsLeap(y) THEN 29 ELSE 28)
    ELSE IF m \in {4, 6, 9, 11} THEN 30 ELSE 31

\* time.Parse(dateLayout, s): <<>> on error, <<t>> otherwise.  The layout's
\* elements are 2006 (four digits), 01, 02, 04, 05 (two digits each), 15 (one
\* or two digits), .000 (a period or comma and three characters read by
\* atoi) and the literals - T : Z.
TimeParse(s) ==
    IF ~(\A i \in 1..4 : IsDigitAt(s, i)) THEN Absent
    ELSE IF ~(IsCharAt(s, 5, "-") /\ IsDigitAt(s, 6) /\ IsDigitAt(s, 7)
              /\ IsCharAt(s, 8, "-") /\ IsDigitAt(s, 9) /\ IsDigitAt(s, 10)
              /\ IsCharAt(s, 11, "T") /\ IsDigitAt(s, 12)) THEN Absent
    ELSE
      LET year == 1000 * DigitVal[s[1]] + 100 * DigitVal[s[2]]
                  + 10 * DigitVal[s[3]] + DigitVal[s[4]]
          month == Num2(s, 6)
          day == Num2(s, 9)
          two == IsDigitAt(s, 13)
          hour == IF two THEN Num2(s, 12) ELSE DigitVal[s[12]]
          o == IF two THEN 14 ELSE 13
      IN IF ~(IsCharAt(s, o, ":") /\ IsDigitAt(s, o + 1) /\ IsDigitAt(s, o + 2)
              /\ IsCharAt(s, o + 3, ":") /\ IsDigitAt(s, o + 4) /\ IsDigitAt(s, o + 5)
              /\ (IsCharAt(s, o + 6, ".") \/ IsCharAt(s, o + 6, ","))
              /\ FracAtoi(s, o + 7) # Absent /\ IsCharAt(s, o + 10, "Z")
              /\ Len(s) = o + 10) THEN Absent
         ELSE
           LET min == Num2(s, o + 1)
               sec == Num2(s, o + 4)
               ms == FracAtoi(s, o + 7)[1]
           IN IF month < 1 \/ month > 12 \/ hour >= 24 \/ min >= 60 \/ sec >= 60
                 \/ ms < 0
                 \/ day < 1 \/ day > daysIn(month, year)
              THEN Absent
              ELSE Some([year |-> year, month |-> month, day |-> day, hour |-> hour,
                         min |-> min, sec |-> sec, ms |-> ms])

parseDateOrReturnNil(strDate) == TimeParse(strDate)

\* ------------------------------------------------- safeFileNameRegexp
SafeChars == Letters \cup Digits \cup {"_", "."}

\* safeFileNameRegexp.ReplaceAllString(name, "_"): every maximal run of
\* characters outside [a-zA-Z0-9_.] becomes one underscore.
RECURSIVE ReplaceUnsafe(_, _, _)
ReplaceUnsafe(s, i, inRun) ==
    IF i > Len(s) THEN <<>>
    ELSE IF s[i] \in SafeChars THEN <<s[i]>> \o ReplaceUnsafe(s, i + 1, FALSE)
    ELSE IF inRun THEN ReplaceUnsafe(s, i + 1, TRUE)
    ELSE <<"_">> \o ReplaceUnsafe(s, i + 1, TRUE)

SafeFileName(name) == ReplaceUnsafe(name, 1, FALSE)


\* ---------------------------------------------------------- the normalizer
\* getLabelsFlattenFromCard: the display names of the card's labels, in order.
getLabelsFlattenFromCard(card) == [k \in 1..Len(card.Labels) |-> card.Labels[k].Name]

\* ScanActions, keeping the first createCard action instead of the last.
RECURSIVE ScanActions_first(_, _, _)
ScanActions_first(actions, k, acc) ==
    IF k > Len(actions) THEN acc
    ELSE LET a == actions[k] IN
      IF a.Type = "commentCard" /\ a.Text # ""
      THEN ScanActions_first(actions, k + 1,
             [acc EXCEPT !.comments = Append(@,
                 [Text |-> a.Text, IDCreator |-> a.MemberId,
                  CreatorName |-> a.MemberName,
                  CreatedAt |-> parseDateOrReturnNil(a.Date)])])
      ELSE IF a.Type = "createCard" /\ acc.creator = ""
      THEN ScanActions_first(actions, k + 1,
             [acc EXCEPT !.creator = a.MemberId,
                         !.createdAt = parseDateOrReturnNil(a.Date)])
      ELSE ScanActions_first(actions, k + 1, acc)

\* ScanActions, without the test for an empty comment text.
RECURSIVE ScanActions_empty(_, _, _)
ScanActions_empty(actions, k, acc) ==
    IF k > Len(actions) THEN acc
    ELSE LET a == actions[k] IN
      IF a.Type = "commentCard"
      THEN ScanActions_empty(actions, k + 1,
             [acc EXCEPT !.comments = Append(@,
                 [Text |-> a.Text, IDCreator |-> a.MemberId,
                  CreatorName |-> a.MemberName,
                  CreatedAt |-> parseDateOrReturnNil(a.Date)])])
      ELSE IF a.Type = "createCard"
      THEN ScanActions_empty(actions, k + 1,
             [acc EXCEPT !.creator = a.MemberId,
                         !.createdAt = parseDateOrReturnNil(a.Date)])
      ELSE ScanActions_empty(actions, k + 1, acc)

\* The loop of getCommentsAndCardCreator over actions[k..], acc being
\* (creator, createdAt, comments) so far.
RECURSIVE ScanActions(_, _, _)
ScanActions(actions, k, acc) ==
    IF k > Len(actions) THEN acc
    ELSE LET a == actions[k] IN
      IF a.Type = "commentCard" /\ a.Text # ""
      THEN ScanActions(actions, k + 1,
             [acc EXCEPT !.comments = Append(@,
                 [Text |-> a.Text, IDCreator |-> a.MemberId,
                  CreatorName |-> a.MemberName,
                  CreatedAt |-> parseDateOrReturnNil(a.Date)])])
      ELSE IF a.Type = "createCard"
      THEN ScanActions(actions, k + 1,
             [acc EXCEPT !.creator = a.MemberId,
                         !.createdAt = parseDateOrReturnNil(a.Date)])
      ELSE ScanActions(actions, k + 1, acc)

\* getCommentsAndCardCreator: err is the outcome of card.Actions(); on an
\* error the message is printed and the loop runs over no actions.
getCommentsAndCardCreator(card, err) ==
    ScanActions(IF err THEN <<>> ELSE card.Actions, 1,
                [creator |-> "", createdAt |-> Absent, comments |-> <<>>])

\* fmt.Sprintf("%s - %s", cl.Name, i.Name)
TaskDescription(clName, itemName) == clName \o <<" ", "-", " ">> \o itemName

\* CheckItemTasks, taking every state but "incomplete" for complete.
CheckItemTasks_loose(cl) ==
    [k \in 1..Len(cl.CheckItems) |->
        [Completed |-> (cl.CheckItems[k].State # "incomplete"),
         Description |-> TaskDescription(cl.Name, cl.CheckItems[k].Name)]]

\* The inner loop of getCheckListsForCard over the items of one checklist.
CheckItemTasks(cl) ==
    [k \in 1..Len(cl.CheckItems) |->
        [Completed |-> (cl.CheckItems[k].State = "complete"),
         Description |-> TaskDescription(cl.Name, cl.CheckItems[k].Name)]]

RECURSIVE ScanChecklists(_, _)
ScanChecklists(checklists, k) ==
    IF k > Len(checklists) THEN <<>>
    ELSE CheckItemTasks(checklists[k]) \o ScanChecklists(checklists, k + 1)

\* getCheckListsForCard: err is the outcome of card.Checklists().
getCheckListsForCard(card, err) ==
    ScanChecklists(IF err THEN <<>> ELSE card.Checklists, 1)

\* ----------------------------------------------------------- the relocator
\* A Go map[string]string: a function from its keys to its values.
MapPut(m, k, v) == [n \in (DOMAIN m) \cup {k} |-> IF n = k THEN v ELSE m[n]]

\* fmt.Sprintf("/trello/%s/%s/%d%s%s", card.IdList, card.Id, i, "_", name)
AttachmentPath(card, i, name) ==
    <<"/", "t", "r", "e", "l", "l", "o", "/">> \o card.IdList \o <<"/">>
      \o card.Id \o <<"/">> \o IntToStr(i) \o <<"_">> \o name

\* sh.ListSharedLinks: the links the storage service holds for a path, oldest first.
ListSharedLinks(store, path) == SelectSeq(store, LAMBDA l : l.path = path)

\* The url the storage service gives to the next link it creates.
NewLinkURL(store) == Len(store) + 1

\* The call of an iteration that fails, if any.  Upload fails either with no
\* output ("upload") or with an output next to the error ("uploadOutput").
FailModes == {"ok", "download", "upload", "uploadOutput", "list", "create"}

\* ResolveLink, creating a link without looking for an existing one.
ResolveLink_always(st, name, path, mode) ==
    IF mode = "create"
    THEN [st EXCEPT !.creates = @ + 1, !.resolved = Append(@, Absent)]
    ELSE LET u == NewLinkURL(st.store) IN
         [st EXCEPT !.creates = @ + 1,
                    !.store = Append(@, [path |-> path, url |-> u]),
                    !.sharedLinks = MapPut(@, name, u),
                    !.resolved = Append(@, Some(u))]

\* Link resolution for one uploaded path: reuse the first existing link,
\* otherwise create one; a failed creation is logged and the name gets no entry.
ResolveLink(st, name, path, mode) ==
    LET found == ListSharedLinks(st.store, path) IN
    IF Len(found) = 0
    THEN IF mode = "create"
         THEN [st EXCEPT !.creates = @ + 1, !.resolved = Append(@, Absent)]
         ELSE LET u == NewLinkURL(st.store) IN
              [st EXCEPT !.creates = @ + 1,
                         !.store = Append(@, [path |-> path, url |-> u]),
                         !.sharedLinks = MapPut(@, name, u),
                         !.resolved = Append(@, Some(u))]
    ELSE [st EXCEPT !.sharedLinks = MapPut(@, name, found[1].url),
                    !.resolved = Append(@, Some(found[1].url))]

\* One iteration of the loop of downloadCardAttachmentsUploadToDropbox for
\* attachments[k] (index k - 1 in the code).  mode names the call that
\* fails, if any: a failed download ends the process; a failed upload
\* evaluates o.PathDisplay for its message, which panics when o is nil and
\* otherwise lets log.Fatalf end the process; a failed ListSharedLinks leaves
\* links nil and links.Links panics.
RelocateAttachment(st, card, k, mode) ==
    LET name == SafeFileName(card.Attachments[k].Name)
        path == AttachmentPath(card, k - 1, name)
    IN IF mode = "download" THEN [st EXCEPT !.outcome = "fatal"]
       ELSE IF mode = "upload" THEN [st EXCEPT !.outcome = "panic"]
       ELSE IF mode = "uploadOutput" THEN [st EXCEPT !.outcome = "fatal"]
       ELSE LET up == [st EXCEPT !.files = @ \cup {path}] IN
            IF mode = "list" THEN [up EXCEPT !.outcome = "panic"]
            ELSE ResolveLink(up, name, path, mode)

RECURSIVE RelocateFrom(_, _, _, _)
RelocateFrom(st, card, k, modes) ==
    IF k > Len(card.Attachments) \/ st.outcome # "ok" THEN st
    ELSE RelocateFrom(RelocateAttachment(st, card, k, modes[k]), card, k + 1, modes)

\* downloadCardAttachmentsUploadToDropbox(card): err is the outcome of
\* card.Attachments() (log.Fatal on an error), modes[k] the failing call of
\* the k-th attachment.  The result carries the returned map (sharedLinks),
\* the storage service's files and links afterwards, the url resolved for
\* each attachment, the number of CreateSharedLink calls and how the call ended.
downloadCardAttachmentsUploadToDropbox(card, err, modes, files, store) ==
    LET st0 == [sharedLinks |-> <<>>, files |-> files, store |-> store,
                resolved |-> <<>>, creates |-> 0, outcome |-> "ok"]
    IN IF err THEN [st0 EXCEPT !.outcome = "fatal"]
       ELSE RelocateFrom(st0, card, 1, modes)

\* -------------------------------------------------------- the orchestrator
\* The identity map: trello member id -> clubhouse user id.
UserMap == [id \in {"u1", "u2"} |-> IF id = "u1" THEN "ch-ann" ELSE "ch-bob"]

GetCreator(id) == IF id \in DOMAIN UserMap THEN UserMap[id] ELSE ""

\* time.Now(), as one fixed instant.
TimeNow == [year |-> 2026, month |-> 1, day |-> 1, hour |-> 0, min |-> 0, sec |-> 0, ms |-> 0]

\* One entry of the log of calls made to the Clubhouse API.
ApiCall(op, card, id, name, ok, req) ==
    [op |-> op, card |-> card, id |-> id, name |-> name, ok |-> ok, req |-> req]

\* fmt.Printf(outputFormat, link, status, detail)
OutputLine(link, status, kind, id) ==
    [link |-> link, status |-> status, detail |-> [kind |-> kind, id |-> id]]

RemoveStory(proj, id) == SelectSeq(proj, LAMBDA st : st.ID # id)

\* The project holds a story of this id.
HasStory(proj, id) == \E j \in 1..Len(proj) : proj[j].ID = id

\* deleteMatchingStories over stories[k..]: DeleteStory on every listed story
\* whose name equals the card's.  The call returns an error for the ids in
\* failing and for a story the project no longer holds (the listing is the
\* one taken when the run began); an error is printed and changes nothing
\* else.  acc is (project, calls, lines).
RECURSIVE DeleteFrom(_, _, _, _, _, _)
DeleteFrom(stories, k, card, ci, failing, acc) ==
    IF k > Len(stories) THEN acc
    ELSE IF stories[k].Name = card.Name
    THEN LET id == stories[k].ID
             ok == id \notin failing /\ HasStory(acc.project, id)
         IN DeleteFrom(stories, k + 1, card, ci, failing,
              [project |-> IF ok THEN RemoveStory(acc.project, id) ELSE acc.project,
               calls |-> Append(acc.calls, ApiCall("DeleteStory", ci, id, card.Name, ok, <<>>)),
               lines |-> IF ok THEN acc.lines
                         ELSE Append(acc.lines,
                                OutputLine(card.ShortURL, "Deleted Matching", "story", id))])
    ELSE DeleteFrom(stories, k + 1, card, ci, failing, acc)

deleteMatchingStories(stories, card, ci, failing, proj) ==
    DeleteFrom(stories, 1, card, ci, failing,
               [project |-> proj, calls |-> <<>>, lines |-> <<>>])

\* The orders in which a range over a Go map may visit its keys.
KeyOrders(m) ==
    {o \in [1..Cardinality(DOMAIN m) -> DOMAIN m] :
        \A a, b \in DOMAIN o : a # b => o[a] # o[b]}

\* LinkFilesFrom, returning at the first failed registration.
RECURSIVE LinkFilesFrom_stop(_, _, _, _, _, _)
LinkFilesFrom_stop(card, ci, order, k, failing, acc) ==
    IF k > Len(order) THEN acc
    ELSE LET name == order[k]
             ok == name \notin failing
             nxt == [ids |-> IF ok THEN Append(acc.ids, acc.nextFileId) ELSE acc.ids,
                     nextFileId |-> IF ok THEN acc.nextFileId + 1 ELSE acc.nextFileId,
                     calls |-> Append(acc.calls,
                        ApiCall("CreateLinkedFiles", ci, IF ok THEN acc.nextFileId ELSE 0,
                                name, ok, <<[Name |-> name, Type |-> "dropbox",
                                             URL |-> card.Attachments[name]]>>))]
         IN IF ok THEN LinkFilesFrom_stop(card, ci, order, k + 1, failing, nxt) ELSE nxt

\* buildLinkFiles over order[k..]: one CreateLinkedFiles per attachment entry;
\* a failure is printed, a success appends the returned id.
RECURSIVE LinkFilesFrom(_, _, _, _, _, _)
LinkFilesFrom(card, ci, order, k, failing, acc) ==
    IF k > Len(order) THEN acc
    ELSE LET name == order[k]
             ok == name \notin failing
         IN LinkFilesFrom(card, ci, order, k + 1, failing,
              [ids |-> IF ok THEN Append(acc.ids, acc.nextFileId) ELSE acc.ids,
               nextFileId |-> IF ok THEN acc.nextFileId + 1 ELSE acc.nextFileId,
               calls |-> Append(acc.calls,
                   ApiCall("CreateLinkedFiles", ci, IF ok THEN acc.nextFileId ELSE 0,
                           name, ok, <<[Name |-> name, Type |-> "dropbox",
                                        URL |-> card.Attachments[name]]>>))])

buildLinkFiles(card, ci, order, failing, fileId) ==
    LinkFilesFrom(card, ci, order, 1, failing,
                  [ids |-> <<>>, nextFileId |-> fileId, calls |-> <<>>])

mapOwnersFromTrelloCard(c) == [k \in 1..Len(c.IDOwners) |-> GetCreator(c.IDOwners[k])]

\* buildComments dereferences cm.CreatedAt of every comment: a nil one panics.
buildCommentsPanics(card) == \E k \in 1..Len(card.Comments) : card.Comments[k].CreatedAt = Absent

buildComments(card, addCommentWithTrelloLink) ==
    [k \in 1..Len(card.Comments) |->
        [CreatedAt |-> card.Comments[k].CreatedAt[1],
         AuthorID |-> GetCreator(card.Comments[k].IDCreator),
         Text |-> <<card.Comments[k].Text>>]]
    \o (IF addCommentWithTrelloLink
        THEN <<[CreatedAt |-> TimeNow, AuthorID |-> "",
                Text |-> <<"Card imported from Trello: ", card.ShortURL>>]>>
        ELSE <<>>)

buildTasks(card) ==
    [k \in 1..Len(card.Tasks) |->
        [Complete |-> card.Tasks[k].Completed, Description |-> card.Tasks[k].Description]]

buildLabels(card) == [k \in 1..Len(card.Labels) |-> [Name |-> card.Labels[k]]]

\* buildClubhouseStory, given the ids buildLinkFiles returned.
buildClubhouseStory(card, o, linkedFileIds) ==
    [RequestedByID |-> GetCreator(card.IDCreator),
     OwnerIds |-> mapOwnersFromTrelloCard(card),
     Name |-> card.Name,
     Description |-> card.Desc,
     Deadline |-> card.DueDate,
     CreatedAt |-> card.CreatedAt,
     Labels |-> buildLabels(card),
     Tasks |-> buildTasks(card),
     Comments |-> buildComments(card, o.AddCommentWithTrelloLink),
     LinkedFileIds |-> linkedFileIds]

\* ------------------------------------------------------------ input sets
SeqsUpTo(S, n) == UNION {[1..k -> S] : k \in 0..n}
Injective(q) == \A a, b \in DOMAIN q : a # b => q[a] # q[b]

DateOk1 == <<"2", "0", "2", "3", "-", "0", "5", "-", "0", "1", "T", "0", "0", ":", "0", "0", ":", "0", "0", ".", "0", "0", "0", "Z">>
DateOk2 == <<"2", "0", "2", "3", "-", "0", "6", "-", "1", "5", "T", "7", ":", "3", "0", ":", "4", "5", ".", "1", "2", "3", "Z">>
DateNoMillis == <<"2", "0", "2", "3", "-", "0", "5", "-", "0", "1", "T", "0", "0", ":", "0", "0", ":", "0", "0", "Z">>
DateBadDay == <<"2", "0", "2", "3", "-", "0", "2", "-", "3", "0", "T", "0", "0", ":", "0", "0", ":", "0", "0", ".", "0", "0", "0", "Z">>
DateEmpty == <<>>
DateSamples == {DateOk1, DateOk2, DateNoMillis, DateBadDay, DateEmpty}

TrelloAction(type, text, date, id, name) ==
    [Type |-> type, Text |-> text, Date |-> date, MemberId |-> id, MemberName |-> name]

ActionSet ==
    {TrelloAction("commentCard", "LGTM", DateOk1, "u1", "Ann"),
     TrelloAction("commentCard", "", DateOk1, "u1", "Ann"),
     TrelloAction("commentCard", "ship it", DateNoMillis, "u2", "Bob"),
     TrelloAction("createCard", "", DateOk1, "u1", "Ann"),
     TrelloAction("createCard", "", DateOk2, "u2", "Bob"),
     TrelloAction("createCard", "", DateBadDay, "u2", "Bob"),
     TrelloAction("commentCard", "done", DateOk2, "u2", "Bob"),
     TrelloAction("updateCard", "moved", DateOk1, "u1", "Ann")}

CheckItem(name, state) == [Name |-> name, State |-> state]

ChecklistSet ==
    {[Name |-> <<"C", "h", "e", "c", "k", "l", "i", "s", "t">>, CheckItems |-> <<CheckItem(<<"T", "e", "s", "t", "s">>, "complete"), CheckItem(<<"D", "o", "c", "s">>, "incomplete")>>],
     [Name |-> <<"C", "h", "e", "c", "k", "l", "i", "s", "t">>, CheckItems |-> <<CheckItem(<<"D", "o", "c", "s">>, "incomplete"), CheckItem(<<"T", "e", "s", "t", "s">>, "complete")>>],
     [Name |-> <<"Q", "A">>, CheckItems |-> <<CheckItem(<<"T", "e", "s", "t", "s">>, "Complete")>>],
     [Name |-> <<"Q", "A">>, CheckItems |-> <<CheckItem(<<"D", "o", "c", "s">>, "")>>],
     [Name |-> <<"Q", "A">>, CheckItems |-> <<>>]}

TrelloAttachment(name, url) == [Name |-> name, Url |-> url]

AttachmentSet ==
    {TrelloAttachment(<<"a", ".", "p", "n", "g">>, "https://trello/att/1"),
     TrelloAttachment(<<"M", "y", " ", "F", "i", "l", "e", " ", "#", "1", ".", "p", "n", "g">>, "https://trello/att/2"),
     TrelloAttachment(<<"a", " ", "b">>, "https://trello/att/3"),
     TrelloAttachment(<<"a", "#", "b">>, "https://trello/att/4")}

\* A trello.Card with what card.Actions(), card.Checklists() and
\* card.Attachments() return for it.
BaseRaw ==
    [Name |-> "A", Desc |-> "desc", Labels |-> <<[Name |-> "bug"], [Name |-> "ui"]>>,
     Due |-> DateOk1, Pos |-> 1, ShortUrl |-> "https://trello.com/c/1",
     IdMembers |-> <<"u1">>, IdList |-> <<"L", "1">>, Id |-> <<"c", "1">>,
     Actions |-> <<>>, Checklists |-> <<>>, Attachments |-> <<>>]

\* One card with a rich action history, checklist set or due date.
RichRaw ==
    {[BaseRaw EXCEPT !.Actions = al] : al \in SeqsUpTo(ActionSet, MaxActions)}
    \cup {[BaseRaw EXCEPT !.Checklists = cl] : cl \in SeqsUpTo(ChecklistSet, MaxChecklists)}
    \cup {[BaseRaw EXCEPT !.Due = d] : d \in DateSamples}

GoodActions == <<TrelloAction("commentCard", "LGTM", DateOk1, "u1", "Ann"),
                 TrelloAction("createCard", "", DateOk2, "u2", "Bob")>>

\* Cards that differ in which of their timestamps parse.
DatedRaw ==
    {[BaseRaw EXCEPT !.Actions = GoodActions],
     [BaseRaw EXCEPT !.Name = "B", !.ShortUrl = "https://trello.com/c/2",
                     !.Due = DateNoMillis,
                     !.Actions = <<TrelloAction("createCard", "", DateBadDay, "u2", "Bob")>>],
     [BaseRaw EXCEPT !.Name = "C", !.ShortUrl = "https://trello.com/c/3",
                     !.Actions = <<TrelloAction("commentCard", "ship it", DateNoMillis, "u2", "Bob")>>],
     [BaseRaw EXCEPT !.Name = "D", !.ShortUrl = "https://trello.com/c/4", !.Due = DateEmpty]}

OneChecklist == <<[Name |-> <<"C", "h", "e", "c", "k", "l", "i", "s", "t">>, CheckItems |-> <<CheckItem(<<"T", "e", "s", "t", "s">>, "complete")>>]>>

\* Cards whose three sub-fetches all return something.
ExportRaw ==
    {[BaseRaw EXCEPT !.Actions = GoodActions, !.Checklists = OneChecklist,
                     !.Attachments = <<TrelloAttachment(<<"a", ".", "p", "n", "g">>, "https://trello/att/1")>>],
     [BaseRaw EXCEPT !.Name = "B", !.ShortUrl = "https://trello.com/c/2", !.Id = <<"c", "2">>,
                     !.Actions = GoodActions, !.Checklists = OneChecklist]}

\* One card with a rich attachment list.
AttachRaw ==
    {[BaseRaw EXCEPT !.Attachments = al] :
        al \in {q \in SeqsUpTo(AttachmentSet, MaxAttachments) : Injective(q)}}

NoModes(card) == [k \in 1..Len(card.Attachments) |-> "ok"]

\* Cards as the import phase reads them.
BaseCard ==
    [Name |-> "A", Desc |-> "desc", Labels |-> <<"bug">>, DueDate |-> TimeParse(DateOk1),
     IDCreator |-> "u1", IDOwners |-> <<"u1">>, CreatedAt |-> TimeParse(DateOk2),
     Comments |-> <<>>,
     Tasks |-> <<[Completed |-> TRUE, Description |-> TaskDescription(<<"C", "h", "e", "c", "k", "l", "i", "s", "t">>, <<"T", "e", "s", "t", "s">>)]>>,
     Position |-> 1, ShortURL |-> "https://trello.com/c/1", Attachments |-> <<>>]

GoodComment == [Text |-> "LGTM", IDCreator |-> "u1", CreatorName |-> "Ann",
                CreatedAt |-> TimeParse(DateOk1)]
UndatedComment == [Text |-> "ship it", IDCreator |-> "u2", CreatorName |-> "Bob",
                   CreatedAt |-> TimeParse(DateNoMillis)]

ImportCards ==
    {BaseCard,
     [BaseCard EXCEPT !.ShortURL = "https://trello.com/c/2", !.Tasks = <<>>],
     [BaseCard EXCEPT !.Name = "B", !.ShortURL = "https://trello.com/c/3",
                      !.Comments = <<GoodComment>>,
                      !.Attachments = MapPut(MapPut(<<>>, <<"a", ".", "p", "n", "g">>, 11), <<"a", "_", "b">>, 12)],
     [BaseCard EXCEPT !.Name = "C", !.ShortURL = "https://trello.com/c/4",
                      !.Comments = <<GoodComment, UndatedComment>>]}

Story(id, name) == [ID |-> id, Name |-> name]
InitialProjects == {<<>>, <<Story(1, "A"), Story(2, "C"), Story(3, "Z")>>}

\* The API failures one behaviour may contain when one of them is injected.
MaxFailures == 2

\* ----------------------------------------------------------------- state
VARIABLES
    crds,         \* the trello cards ProcessCardsForExporting has taken up
    fetched,      \* per card taken up: which of its fetches failed
    cards,        \* the []Card built so far / read by the import
    exportPc,     \* "run", "done", "fatal" (log.Fatal) or "panic"
    topts,        \* TrelloOptions
    files,        \* storage service: the uploaded paths
    store,        \* storage service: the shared links, oldest first
    relocRuns,    \* one record per call of downloadCardAttachmentsUploadToDropbox
    tcard,        \* the card the relocator is run on again and again
    opts,         \* ClubhouseOptions
    project,      \* Clubhouse: the stories of the project, oldest first
    nextStoryId,  \* Clubhouse: the id of the next story
    nextFileId,   \* Clubhouse: the id of the next linked file
    stories,      \* the listing taken at the start of the import
    importPc,     \* "idle", "running", "done" or "panic"
    idx,          \* the card the import loop is at
    run,          \* the number of import runs started
    output,       \* the lines of this import run
    calls,        \* the API calls of this import run
    failures      \* the API calls that have failed so far

vars == <<crds, fetched, cards, exportPc, topts, files, store, relocRuns, tcard,
          opts, project, nextStoryId, nextFileId, stories, importPc, idx, run,
          output, calls, failures>>

exportVars == <<crds, fetched, cards, exportPc, topts>>
storageVars == <<files, store>>
importVars == <<opts, project, nextStoryId, nextFileId, stories, importPc, idx,
                run, output, calls, failures>>

\* ----------------------------------------------------------------- export
RelocSummary(r) == [resolved |-> r.resolved, creates |-> r.creates,
                    sharedLinks |-> r.sharedLinks, outcome |-> r.outcome]

\* One iteration of the loop of ProcessCardsForExporting on the card rc.
ExportCardOf(rc, aErr, cErr, tErr, modes) ==
    /\ exportPc = "run"
    /\ LET cc == getCommentsAndCardCreator(rc, aErr)
           r == downloadCardAttachmentsUploadToDropbox(rc, tErr, modes, files, store)
           c == [Name |-> rc.Name, Desc |-> rc.Desc,
                 Labels |-> getLabelsFlattenFromCard(rc),
                 DueDate |-> parseDateOrReturnNil(rc.Due),
                 IDCreator |-> cc.creator, CreatedAt |-> cc.createdAt,
                 Comments |-> cc.comments,
                 Tasks |-> getCheckListsForCard(rc, cErr),
                 Position |-> rc.Pos, ShortURL |-> rc.ShortUrl,
                 IDOwners |-> rc.IdMembers,
                 Attachments |-> IF topts.ProcessImages THEN r.sharedLinks ELSE <<>>]
       IN /\ crds' = Append(crds, rc)
          /\ fetched' = Append(fetched, [actionsErr |-> aErr, checklistsErr |-> cErr,
                                         attachmentsErr |-> tErr, modes |-> modes])
          /\ IF topts.ProcessImages
             THEN /\ files' = r.files
                  /\ store' = r.store
                  /\ relocRuns' = Append(relocRuns, RelocSummary(r))
                  /\ exportPc' = IF r.outcome = "ok" THEN "run" ELSE r.outcome
                  /\ cards' = IF r.outcome = "ok" THEN Append(cards, c) ELSE cards
             ELSE /\ tErr = FALSE /\ modes = NoModes(rc)
                  /\ UNCHANGED <<files, store, relocRuns, exportPc>>
                  /\ cards' = Append(cards, c)
    /\ UNCHANGED <<topts, tcard>>
    /\ UNCHANGED importVars

\* ProcessCardsForExporting on a board whose fetches may fail.
ExportCard ==
    /\ Len(crds) < MaxCards
    /\ \E rc \in ExportRaw, aErr \in BOOLEAN, cErr \in BOOLEAN, tErr \in BOOLEAN :
         \E modes \in [1..Len(rc.Attachments) -> FailModes] :
            ExportCardOf(rc, aErr, cErr, tErr, modes)

\* ProcessCardsForExporting on one card, its actions and checklists fetched or not.
ExportRichCard ==
    /\ Len(crds) = 0
    /\ \E rc \in RichRaw, aErr \in BOOLEAN, cErr \in BOOLEAN :
         ExportCardOf(rc, aErr, cErr, FALSE, NoModes(rc))

\* ProcessCardsForExporting on a board whose fetches succeed.
ExportDatedCard ==
    /\ Len(crds) < MaxCards
    /\ \E rc \in DatedRaw : ExportCardOf(rc, FALSE, FALSE, FALSE, NoModes(rc))

\* The loop of ProcessCardsForExporting ends: the board has no more cards.
ExportDone ==
    /\ exportPc = "run"
    /\ exportPc' = "done"
    /\ UNCHANGED <<crds, fetched, cards, topts, files, store, relocRuns, tcard>>
    /\ UNCHANGED importVars

\* downloadCardAttachmentsUploadToDropbox(tcard), once more.
Relocate ==
    /\ exportPc = "run"
    /\ Len(relocRuns) < MaxRuns
    /\ \E tErr \in BOOLEAN, modes \in [1..Len(tcard.Attachments) -> FailModes] :
         LET r == downloadCardAttachmentsUploadToDropbox(tcard, tErr, modes, files, store)
         IN /\ files' = r.files
            /\ store' = r.store
            /\ relocRuns' = Append(relocRuns, RelocSummary(r))
            /\ exportPc' = IF r.outcome = "ok" THEN "run" ELSE r.outcome
    /\ UNCHANGED <<crds, fetched, cards, topts, tcard>>
    /\ UNCHANGED importVars

\* ----------------------------------------------------------------- import
HeaderLine == OutputLine("Trello Card Link", "Import Status", "header", 0)

\* ImportCardsIntoClubhouse up to its loop: the header and ListStories, whose
\* error is dropped.  With no cards the function returns at once.  The
\* program is started again after an import that returned or panicked.
StartImport ==
    /\ exportPc = "done"
    /\ importPc = "idle" \/ (importPc \in {"done", "panic"} /\ run < MaxRuns)
    /\ \E listFail \in BOOLEAN :
         /\ failures + (IF listFail THEN 1 ELSE 0) <= MaxFailures
         /\ failures' = failures + (IF listFail THEN 1 ELSE 0)
         /\ stories' = IF listFail THEN <<>> ELSE project
         /\ calls' = <<ApiCall("ListStories", 0, 0, "", ~listFail, <<>>)>>
    /\ run' = run + 1
    /\ idx' = 1
    /\ output' = <<HeaderLine>>
    /\ importPc' = IF Len(cards) = 0 THEN "done" ELSE "running"
    /\ UNCHANGED <<opts, project, nextStoryId, nextFileId>>
    /\ UNCHANGED <<crds, fetched, cards, exportPc, topts, files, store, relocRuns, tcard>>

StoryIds(proj) == {proj[k].ID : k \in 1..Len(proj)}

\* The calls of a log that returned an error.
FailedCalls(log) == Cardinality({k \in 1..Len(log) : ~log[k].ok})

MatchingIds(list, card) == {list[k].ID : k \in {j \in 1..Len(list) : list[j].Name = card.Name}}

\* One iteration of the loop of ImportCardsIntoClubhouse: deleteMatchingStories,
\* buildClubhouseStory (whose buildComments may panic, before buildLinkFiles
\* runs), CreateStory and the status line.
ImportCard ==
    /\ importPc = "running"
    /\ idx <= Len(cards)
    /\ LET c == cards[idx] IN
       \E delFail \in SUBSET (MatchingIds(stories, c) \cap StoryIds(project)),
          createFail \in BOOLEAN,
          order \in KeyOrders(c.Attachments), lfFail \in SUBSET (DOMAIN c.Attachments) :
         LET del == deleteMatchingStories(stories, c, idx, delFail, project)
             lf == buildLinkFiles(c, idx, order, lfFail, nextFileId)
             req == buildClubhouseStory(c, opts, lf.ids)
             injected == Cardinality(delFail) + Cardinality(lfFail)
                           + (IF createFail THEN 1 ELSE 0)
             nfail == FailedCalls(del.calls) + Cardinality(lfFail)
                        + (IF createFail THEN 1 ELSE 0)
         IN IF buildCommentsPanics(c)
            THEN /\ createFail = FALSE /\ lfFail = {}
                 /\ injected = 0 \/ failures + nfail <= MaxFailures
                 /\ failures' = failures + nfail
                 /\ project' = del.project
                 /\ calls' = calls \o del.calls
                 /\ output' = output \o del.lines
                 /\ importPc' = "panic"
                 /\ UNCHANGED <<nextStoryId, nextFileId, idx>>
            ELSE /\ injected = 0 \/ failures + nfail <= MaxFailures
                 /\ failures' = failures + nfail
                 /\ nextFileId' = lf.nextFileId
                 /\ calls' = calls \o del.calls \o lf.calls
                       \o <<ApiCall("CreateStory", idx, IF createFail THEN 0 ELSE nextStoryId,
                                    c.Name, ~createFail, <<req>>)>>
                 /\ IF createFail
                    THEN /\ output' = output \o del.lines
                                \o <<OutputLine(c.ShortURL, "Failed", "error", 0)>>
                         /\ UNCHANGED nextStoryId
                         /\ project' = del.project
                    ELSE /\ output' = output \o del.lines
                                \o <<OutputLine(c.ShortURL, "Success", "story", nextStoryId)>>
                         /\ nextStoryId' = nextStoryId + 1
                         /\ project' = Append(del.project, Story(nextStoryId, c.Name))
                 /\ idx' = idx + 1
                 /\ importPc' = IF idx + 1 > Len(cards) THEN "done" ELSE "running"
    /\ UNCHANGED <<opts, stories, run>>
    /\ UNCHANGED <<crds, fetched, cards, exportPc, topts, files, store, relocRuns, tcard>>

\* --------------------------------------------------------- specifications
InitStorage == files = {} /\ store = <<>> /\ relocRuns = <<>> /\ tcard = BaseRaw

InitClubhouse ==
    /\ project \in InitialProjects
    /\ nextStoryId = Len(project) + 1
    /\ nextFileId = 1
    /\ stories = <<>> /\ importPc = "idle" /\ idx = 1 /\ run = 0
    /\ output = <<>> /\ calls = <<>> /\ failures = 0

\* Export, then import: a board whose timestamps may not parse.
Init ==
    /\ crds = <<>> /\ fetched = <<>> /\ cards = <<>> /\ exportPc = "run"
    /\ topts = [ProcessImages |-> FALSE]
    /\ InitStorage
    /\ opts \in [AddCommentWithTrelloLink : BOOLEAN]
    /\ InitClubhouse

Next == ExportDatedCard \/ ExportDone \/ StartImport \/ ImportCard

Spec == Init /\ [][Next]_vars

\* Export, then import: one card with a rich history.
InitCard ==
    /\ crds = <<>> /\ fetched = <<>> /\ cards = <<>> /\ exportPc = "run"
    /\ topts = [ProcessImages |-> FALSE]
    /\ InitStorage
    /\ opts \in [AddCommentWithTrelloLink : BOOLEAN]
    /\ InitClubhouse

NextCard == ExportRichCard \/ ExportDone \/ StartImport \/ ImportCard

SpecCard == InitCard /\ [][NextCard]_vars

\* Export alone, with failing fetches and the relocator.
InitExport ==
    /\ crds = <<>> /\ fetched = <<>> /\ cards = <<>> /\ exportPc = "run"
    /\ topts \in [ProcessImages : BOOLEAN]
    /\ InitStorage
    /\ opts = [AddCommentWithTrelloLink |-> FALSE]
    /\ InitClubhouse /\ project = <<>>

NextExport == ExportCard \/ ExportDone

SpecExport == InitExport /\ [][NextExport]_vars

\* The relocator alone, run repeatedly on one card.
InitReloc ==
    /\ crds = <<>> /\ fetched = <<>> /\ cards = <<>> /\ exportPc = "run"
    /\ topts = [ProcessImages |-> TRUE]
    /\ files = {} /\ store = <<>> /\ relocRuns = <<>>
    /\ tcard \in AttachRaw
    /\ opts = [AddCommentWithTrelloLink |-> FALSE]
    /\ InitClubhouse /\ project = <<>>

NextReloc == Relocate

SpecReloc == InitReloc /\ [][NextReloc]_vars

\* The import alone, run repeatedly on the cards of a file.
InitImport ==
    /\ crds = <<>> /\ fetched = <<>> /\ exportPc = "done"
    /\ cards \in {q \in SeqsUpTo(ImportCards, MaxCards) : Injective(q)}
    /\ topts = [ProcessImages |-> FALSE]
    /\ InitStorage
    /\ opts = [AddCommentWithTrelloLink |-> TRUE]
    /\ InitClubhouse

NextImport == StartImport \/ ImportCard

SpecImport == InitImport /\ [][NextImport]_vars

\* ------------------------------------------------------------ properties
CountStories(proj, name) == Cardinality({k \in 1..Len(proj) : proj[k].Name = name})
CallsOf(op, k) == SelectSeq(calls, LAMBDA c : c.op = op /\ c.card = k)

\* Two or more imports have ended, returning or not, and no API call of any
\* of them has returned an error.
RerunClean == run >= 2 /\ importPc \in {"done", "panic"} /\ failures = 0

\* C1: after two imports of the same cards in which every API call succeeded
\* the project holds exactly one story per card name of the set, whatever
\* the set.
C1_OneStoryPerName ==
    RerunClean => \A k \in 1..Len(cards) : CountStories(project, cards[k].Name) = 1

\* The Failed and Success lines of this run, in the order printed.
StatusLines == SelectSeq(output, LAMBDA l : l.status \in {"Failed", "Success"})

\* The import has taken up card k and is through with it.
TakenUp(k) == k < idx \/ (k = idx /\ importPc = "panic")

\* C2: the batch never aborts: every card taken up has exactly one
\* CreateStory attempt, and an import that has ended has made one attempt
\* and printed one Failed or Success line for every card, the lines in the
\* order of the cards and agreeing with the outcome of the attempts.
C2_BatchNeverAborts ==
    /\ \A k \in 1..Len(cards) : TakenUp(k) => Len(CallsOf("CreateStory", k)) = 1
    /\ importPc \in {"done", "panic"} /\ run >= 1 =>
         /\ Len(StatusLines) = Len(cards)
         /\ \A k \in 1..Len(cards) :
              /\ Len(CallsOf("CreateStory", k)) = 1
              /\ StatusLines[k].link = cards[k].ShortURL
              /\ (StatusLines[k].status = "Success") = CallsOf("CreateStory", k)[1].ok

\* C5: for every card taken up, DeleteStory has been called on exactly the
\* listed stories of the card's name, in listing order, failed or not; every
\* failed deletion has its line; CreateStory has been attempted for the card,
\* after all of its deletions.
C5_DeleteThenCreate ==
    \A k \in 1..Len(cards) : TakenUp(k) =>
      LET dels == CallsOf("DeleteStory", k)
          listed == SelectSeq(stories, LAMBDA st : st.Name = cards[k].Name)
      IN /\ Len(dels) = Len(listed)
         /\ \A j \in 1..Len(dels) : dels[j].id = listed[j].ID
         /\ \A j \in 1..Len(dels) : ~dels[j].ok =>
              \E l \in 1..Len(output) :
                 /\ output[l].status = "Deleted Matching"
                 /\ output[l].link = cards[k].ShortURL
                 /\ output[l].detail.id = dels[j].id
         /\ Len(CallsOf("CreateStory", k)) = 1
         /\ \A i, j \in 1..Len(calls) :
              (calls[i].card = k /\ calls[i].op = "DeleteStory"
               /\ calls[j].card = k /\ calls[j].op = "CreateStory") => i < j

\* C6: whenever buildLinkFiles has run for a card (its story creation request
\* exists), exactly one CreateLinkedFiles call was made per entry of
\* Card.Attachments, with the entry's name and url and type "dropbox"; the
\* request's LinkedFileIds are the ids of the calls that succeeded, in call
\* order; and no registration, failed or not, is left without the card's
\* CreateStory attempt after it.
C6_LinkedFiles ==
    /\ \A c \in 1..Len(calls) : calls[c].op = "CreateStory" =>
         LET k == calls[c].card
             regs == CallsOf("CreateLinkedFiles", k)
             good == SelectSeq(regs, LAMBDA r : r.ok)
             att == cards[k].Attachments
         IN /\ Len(regs) = Cardinality(DOMAIN att)
            /\ {regs[j].name : j \in 1..Len(regs)} = DOMAIN att
            /\ \A j \in 1..Len(regs) :
                 /\ regs[j].req[1].URL = att[regs[j].name]
                 /\ regs[j].req[1].Type = "dropbox"
            /\ calls[c].req[1].LinkedFileIds = [j \in 1..Len(good) |-> good[j].id]
            /\ \A i, j \in 1..Len(good) : i # j => good[i].id # good[j].id
    /\ \A r \in 1..Len(calls) : calls[r].op = "CreateLinkedFiles" =>
         \E c \in 1..Len(calls) :
            c > r /\ calls[c].op = "CreateStory" /\ calls[c].card = calls[r].card

\* A story is requested for a card with two attachments of which one
\* registration failed and one succeeded.
C6_Witness ==
    \E c \in 1..Len(calls) :
       /\ calls[c].op = "CreateStory"
       /\ Cardinality(DOMAIN cards[calls[c].card].Attachments) = 2
       /\ Len(calls[c].req[1].LinkedFileIds) = 1
       /\ \E r \in 1..Len(calls) :
            calls[r].op = "CreateLinkedFiles" /\ calls[r].card = calls[c].card /\ ~calls[r].ok

\* C3: a failed fetch of a card's actions, checklists or attachments does
\* not end the run: unless the relocation of one of its attachments ends the
\* process, the card is produced, with no comments, creator or creation
\* date, no tasks, or no attachments respectively.
C3_FetchFailuresTolerated ==
    \A k \in 1..Len(crds) :
      LET f == fetched[k] IN
      (/\ f.actionsErr \/ f.checklistsErr \/ f.attachmentsErr
       /\ f.attachmentsErr \/ \A j \in DOMAIN f.modes : f.modes[j] \in {"ok", "create"})
      => /\ Len(cards) >= k
         /\ f.actionsErr => /\ cards[k].Comments = <<>>
                            /\ cards[k].IDCreator = ""
                            /\ cards[k].CreatedAt = Absent
         /\ f.checklistsErr => cards[k].Tasks = <<>>
         /\ f.attachmentsErr => cards[k].Attachments = <<>>

\* The run of the relocator resolved a link for every attachment of the card.
AllResolved(rr) ==
    /\ rr.outcome = "ok"
    /\ Len(rr.resolved) = Len(tcard.Attachments)
    /\ \A j \in 1..Len(rr.resolved) : rr.resolved[j] # Absent

\* C4: the storage service never holds two shared links for one path; and a
\* run of the relocator that follows a run which resolved a link for every
\* attachment makes no CreateSharedLink call and resolves, attachment by
\* attachment, the urls of that run, returning the same map when it completes.
C4_RelocationIdempotent ==
    /\ \A i, j \in 1..Len(store) : store[i].path = store[j].path => i = j
    /\ \A r \in 2..Len(relocRuns) : AllResolved(relocRuns[r - 1]) =>
         /\ relocRuns[r].creates = 0
         /\ \A j \in 1..Len(relocRuns[r].resolved) :
              relocRuns[r].resolved[j] = relocRuns[r - 1].resolved[j]
         /\ relocRuns[r].outcome = "ok" =>
              /\ relocRuns[r].resolved = relocRuns[r - 1].resolved
              /\ relocRuns[r].sharedLinks = relocRuns[r - 1].sharedLinks
              /\ Len(store) = Len(tcard.Attachments)
              /\ Cardinality(files) = Len(tcard.Attachments)

\* Two complete runs on a card with two attachments, the first run having
\* created both links.
C4_Witness ==
    /\ Len(relocRuns) = 2
    /\ Len(tcard.Attachments) = 2
    /\ AllResolved(relocRuns[1]) /\ relocRuns[1].creates = 2
    /\ AllResolved(relocRuns[2])

HasAbsentTimestamp(c) ==
    \/ c.DueDate = Absent
    \/ c.CreatedAt = Absent
    \/ \E j \in 1..Len(c.Comments) : c.Comments[j].CreatedAt = Absent

\* C7: a timestamp that does not parse never aborts a card: the normalizer
\* produces every card, an unparseable due date, createCard date or comment
\* date being absent in it; and the import prints a Failed or Success line
\* for every card with an absent timestamp that it has taken up.
C7_AbsentTimestampsNeverAbort ==
    /\ \A k \in 1..Len(crds) :
         /\ Len(cards) >= k
         /\ TimeParse(crds[k].Due) = Absent => cards[k].DueDate = Absent
    /\ \A k \in 1..Len(cards) :
         (run >= 1 /\ TakenUp(k) /\ HasAbsentTimestamp(cards[k])) =>
            \E l \in 1..Len(output) :
               /\ output[l].status \in {"Failed", "Success"}
               /\ output[l].link = cards[k].ShortURL

\* The actions the normalizer got for the one card of the board.
ActionsGot == IF fetched[1].actionsErr THEN <<>> ELSE crds[1].Actions
CreateIdx == {j \in 1..Len(ActionsGot) : ActionsGot[j].Type = "createCard"}
LastCreate == CHOOSE j \in CreateIdx : \A i \in CreateIdx : i <= j

Instant(y, mo, d, h, mi, sec, ms) ==
    [year |-> y, month |-> mo, day |-> d, hour |-> h, min |-> mi, sec |-> sec, ms |-> ms]

\* What a date of DateSamples is as a time.
ExpectedTime(date) ==
    IF date = DateOk1 THEN <<Instant(2023, 5, 1, 0, 0, 0, 0)>>
    ELSE IF date = DateOk2 THEN <<Instant(2023, 6, 15, 7, 30, 45, 123)>>
    ELSE <<>>

\* C8 (as stated): a createCard action that occurs exactly once gives a
\* non-absent creator and a non-absent created-at, that action's actor and date.
C8_CreatorAndDatePresent ==
    (Len(cards) >= 1 /\ Cardinality(CreateIdx) = 1) =>
       /\ cards[1].IDCreator = ActionsGot[LastCreate].MemberId
       /\ cards[1].IDCreator # ""
       /\ cards[1].CreatedAt # Absent
       /\ cards[1].CreatedAt = ExpectedTime(ActionsGot[LastCreate].Date)

\* C8 (amended): the creator is the actor of the last createCard action and
\* created-at is that action's date as parsed, absent when the date does not
\* parse; without a createCard action the creator is empty and created-at absent.
C8_CreatorFromLastCreate ==
    Len(cards) >= 1 =>
       IF CreateIdx = {}
       THEN cards[1].IDCreator = "" /\ cards[1].CreatedAt = Absent
       ELSE /\ cards[1].IDCreator = ActionsGot[LastCreate].MemberId
            /\ cards[1].IDCreator # ""
            /\ cards[1].CreatedAt = ExpectedTime(ActionsGot[LastCreate].Date)
            /\ (cards[1].CreatedAt = Absent) =
                 (ActionsGot[LastCreate].Date \in {DateNoMillis, DateBadDay, DateEmpty})

\* One createCard action, whose date does not parse: a creator, no created-at.
C8_Witness ==
    /\ Len(cards) = 1
    /\ Cardinality(CreateIdx) = 1
    /\ ActionsGot[LastCreate].Date = DateBadDay
    /\ cards[1].IDCreator = "u2"
    /\ cards[1].CreatedAt = Absent

\* C9: the comments are the commentCard actions with a non-empty text, in
\* the order of the actions, with their text, actor id and actor name; hence
\* fewer comments than actions when a commentCard action has an empty text.
C9_Comments ==
    Len(cards) >= 1 =>
      LET kept == SelectSeq(ActionsGot, LAMBDA a : a.Type = "commentCard" /\ a.Text # "")
          cs == cards[1].Comments
      IN /\ Len(cs) = Len(kept)
         /\ \A j \in 1..Len(cs) :
              /\ cs[j].Text = kept[j].Text
              /\ cs[j].IDCreator = kept[j].MemberId
              /\ cs[j].CreatorName = kept[j].MemberName
              /\ cs[j].Text # ""
         /\ (\E j \in 1..Len(ActionsGot) :
                ActionsGot[j].Type = "commentCard" /\ ActionsGot[j].Text = "")
              => Len(cs) < Len(ActionsGot)

\* A comment with an empty text before one with a text: one comment.
C9_Witness ==
    /\ Len(cards) = 1
    /\ Len(ActionsGot) = 2
    /\ ActionsGot[1].Type = "commentCard" /\ ActionsGot[1].Text = ""
    /\ ActionsGot[2].Type = "commentCard" /\ ActionsGot[2].Text = "LGTM"
    /\ Len(cards[1].Comments) = 1

\* The checklists the normalizer got for the one card of the board.
ChecklistsGot == IF fetched[1].checklistsErr THEN <<>> ELSE crds[1].Checklists

\* The number of items of the checklists before the c-th.
RECURSIVE ItemsBefore(_)
ItemsBefore(c) == IF c <= 1 THEN 0
                  ELSE ItemsBefore(c - 1) + Len(ChecklistsGot[c - 1].CheckItems)

\* C10: one task per checklist item, in checklist order and item order,
\* described "<checklist name> - <item name>" and completed exactly when the
\* item's state is "complete"; the tasks of a story creation request are
\* these tasks, in number, order, completion and description.
C10_Tasks ==
    Len(cards) >= 1 =>
      LET ts == cards[1].Tasks IN
      /\ Len(ts) = ItemsBefore(Len(ChecklistsGot) + 1)
      /\ \A c \in 1..Len(ChecklistsGot) :
           \A i \in 1..Len(ChecklistsGot[c].CheckItems) :
              LET it == ChecklistsGot[c].CheckItems[i]
                  t == ts[ItemsBefore(c) + i]
              IN /\ t.Completed = (it.State = "complete")
                 /\ t.Description = ChecklistsGot[c].Name \o <<" ", "-", " ">> \o it.Name
      /\ \A q \in 1..Len(calls) : calls[q].op = "CreateStory" =>
           LET rt == calls[q].req[1].Tasks IN
           /\ Len(rt) = Len(ts)
           /\ \A j \in 1..Len(ts) :
                /\ rt[j].Complete = ts[j].Completed
                /\ rt[j].Description = ts[j].Description

\* Two checklists, three items, of which one is "complete" and one
\* "Complete", in a story creation request.
C10_Witness ==
    /\ Len(cards) = 1
    /\ Len(ChecklistsGot) = 2
    /\ Len(cards[1].Tasks) = 3
    /\ cards[1].Tasks[1].Completed /\ ~cards[1].Tasks[2].Completed
    /\ ChecklistsGot[2].CheckItems[1].State = "Complete" /\ ~cards[1].Tasks[3].Completed
    /\ \E q \in 1..Len(calls) :
          calls[q].op = "CreateStory" /\ Len(calls[q].req[1].Tasks) = 3

\* C11: a run of the relocator in which every download, upload and link
\* resolution succeeded returns a map with one entry per attachment of the
\* card: as many keys as attachments, and every resolved url among its values.
C11_OneEntryPerAttachment ==
    \A r \in 1..Len(relocRuns) : AllResolved(relocRuns[r]) =>
       LET m == relocRuns[r].sharedLinks IN
       /\ Cardinality(DOMAIN m) = Len(tcard.Attachments)
       /\ \A j \in 1..Len(relocRuns[r].resolved) :
            \E n \in DOMAIN m : m[n] = relocRuns[r].resolved[j][1]

====
